---- MODULE Spec2Model ----
(***************************************************************************)
(* A model of the calculator of OmarH-creator/Lab-3: the expression        *)
(* evaluator (src/src/core/evaluator.py) and the input session kept by     *)
(* CalculatorWindow (src/src/ui/main_window.py).                           *)
(*                                                                         *)
(* Text is a sequence of one-character strings.  A decimal.Decimal is the  *)
(* record [neg, coef, exp] of its normalised value                         *)
(* (-1)^neg * coef * 10^exp; the sign of a zero is kept.  Every conversion *)
(* of a Decimal to text in the program normalises first, and comparison is *)
(* numeric, so the normalised record carries all the program can observe.  *)
(***************************************************************************)
EXTENDS Integers, Sequences, FiniteSets, TLC

(***************************************************************************)
(* Bounds of the model.                                                    *)
(***************************************************************************)
\* A run of the session handles at most MaxEvents events.
MaxEvents == 6
\* Decimals of the model have at most MaxDigits significant digits ...
MaxDigits == 4
\* ... and an exponent between -MaxScale and MaxScale.
MaxScale == 4
\* Digit and DecimalPoint events are taken while the buffer is shorter.
MaxInputLen == 3
\* Operator events are taken while expression_tokens stays this short.
MaxTokens == 4
\* Token strings given to evaluate() are enumerated up to this length.
MaxExprLen == 4

(***************************************************************************)
(* Characters and text.                                                    *)
(***************************************************************************)
DigitChars == <<"0", "1", "2", "3", "4", "5", "6", "7", "8", "9">>

IsDigit(c) == \E i \in 1..10 : DigitChars[i] = c

DigitVal(c) == (CHOOSE i \in 1..10 : DigitChars[i] = c) - 1

Pow10(n) == IF n <= 0 THEN 1 ELSE LET RECURSIVE P(_)
                                      P(k) == IF k = 0 THEN 1 ELSE 10 * P(k - 1)
                                  IN P(n)

MaxCoef == Pow10(MaxDigits) - 1

Min(a, b) == IF a <= b THEN a ELSE b

\* str.count(ch)
Count(s, ch) == Cardinality({i \in 1..Len(s) : s[i] = ch})

\* ch in s
Contains(s, ch) == \E i \in 1..Len(s) : s[i] = ch

\* s.startswith("-")
StartsWithMinus(s) == Len(s) > 0 /\ s[1] = "-"

\* s.rstrip(ch)
RECURSIVE RStrip(_, _)
RStrip(s, ch) ==
    IF Len(s) > 0 /\ s[Len(s)] = ch THEN RStrip(SubSeq(s, 1, Len(s) - 1), ch) ELSE s

\* "".join(seq of texts)
RECURSIVE Join(_)
Join(ts) == IF ts = <<>> THEN <<>> ELSE Head(ts) \o Join(Tail(ts))

\* str(n) for a natural number n
RECURSIVE NatText(_)
NatText(n) ==
    IF n < 10 THEN <<DigitChars[n + 1]>> ELSE NatText(n \div 10) \o <<DigitChars[(n % 10) + 1]>>

\* "0" * n
Zeros(n) == [i \in 1..n |-> "0"]

(***************************************************************************)
(* decimal.Decimal: construction, arithmetic under the context of          *)
(* evaluator.py:20 (prec = 28, ROUND_HALF_EVEN, the three division signals *)
(* trapped), text conversion.  An operation answers [kind, val]: kind is   *)
(* "ok", the name of the exception raised ("DivisionByZero" for x/0,       *)
(* "InvalidOperation" for 0/0, whose condition DivisionUndefined the       *)
(* context raises as its signal InvalidOperation), or "range" when the     *)
(* exact result needs more than MaxDigits digits or an exponent beyond     *)
(* MaxScale: the model does not follow the program there.                  *)
(***************************************************************************)
Zero == [neg |-> FALSE, coef |-> 0, exp |-> 0]

\* Decimal.normalize(): no trailing zero in the coefficient, a zero has exponent 0.
RECURSIVE Normalize(_)
Normalize(d) ==
    IF d.coef = 0 THEN [d EXCEPT !.exp = 0]
    ELSE IF d.coef % 10 = 0 THEN Normalize([d EXCEPT !.coef = d.coef \div 10, !.exp = d.exp + 1])
    ELSE d

InRange(d) == d.coef <= MaxCoef /\ d.exp >= -MaxScale /\ d.exp <= MaxScale

Ok(d) == IF InRange(Normalize(d)) THEN [kind |-> "ok", val |-> Normalize(d)]
         ELSE [kind |-> "range", val |-> Zero]

OutOfRange == [kind |-> "range", val |-> Zero]

\* a == b on Decimals: numeric, so 0 == -0
NumEq(a, b) == a.coef = b.coef /\ a.exp = b.exp /\ (a.coef = 0 \/ a.neg = b.neg)

\* the coefficient c shifted left by s digits stays within MaxDigits digits
ShiftFits(c, s) == c = 0 \/ (s <= MaxDigits /\ c <= MaxCoef \div Pow10(s))

\* Decimal.__add__
DecAdd(a, b) ==
    LET e  == Min(a.exp, b.exp)
        sa == a.exp - e
        sb == b.exp - e
    IN IF ~(ShiftFits(a.coef, sa) /\ ShiftFits(b.coef, sb)) THEN OutOfRange
       ELSE LET ia == (IF a.neg THEN -1 ELSE 1) * a.coef * Pow10(sa)
                ib == (IF b.neg THEN -1 ELSE 1) * b.coef * Pow10(sb)
                s  == ia + ib
            IN IF s = 0 THEN Ok([neg |-> a.neg /\ b.neg, coef |-> 0, exp |-> 0])
               ELSE Ok([neg |-> s < 0, coef |-> IF s < 0 THEN -s ELSE s, exp |-> e])

\* Decimal.copy_negate()
CopyNegate(a) == [a EXCEPT !.neg = ~a.neg]

\* Decimal.__sub__: self + other.copy_negate()
DecSub(a, b) == DecAdd(a, CopyNegate(b))

\* Decimal.__mul__
DecMul(a, b) ==
    IF a.coef = 0 \/ b.coef = 0 THEN Ok([neg |-> a.neg # b.neg, coef |-> 0, exp |-> 0])
    ELSE IF a.coef > MaxCoef \div b.coef THEN OutOfRange
    ELSE Ok([neg |-> a.neg # b.neg, coef |-> a.coef * b.coef, exp |-> a.exp + b.exp])

\* long division of the remainder r by c, the quotient q so far, k digits produced
RECURSIVE LongDiv(_, _, _, _)
LongDiv(q, r, c, k) ==
    IF r = 0 THEN [exact |-> TRUE, q |-> q, k |-> k]
    ELSE IF k >= 2 * MaxScale \/ q > MaxCoef \div 10 THEN [exact |-> FALSE, q |-> q, k |-> k]
    ELSE LongDiv(10 * q + ((10 * r) \div c), (10 * r) % c, c, k + 1)

\* Decimal.__truediv__
DecDiv(a, b) ==
    IF b.coef = 0
    THEN [kind |-> IF a.coef = 0 THEN "InvalidOperation" ELSE "DivisionByZero", val |-> Zero]
    ELSE IF a.coef = 0 THEN Ok([neg |-> a.neg # b.neg, coef |-> 0, exp |-> 0])
    ELSE LET d == LongDiv(a.coef \div b.coef, a.coef % b.coef, b.coef, 0)
         IN IF ~d.exact THEN OutOfRange
            ELSE Ok([neg |-> a.neg # b.neg, coef |-> d.q, exp |-> a.exp - b.exp - d.k])

\* Decimal.__neg__: the negation of a zero is the positive zero
DecNeg(a) == IF a.coef = 0 THEN Ok([a EXCEPT !.neg = FALSE]) ELSE Ok(CopyNegate(a))

Hundred == [neg |-> FALSE, coef |-> 1, exp |-> 2]

\* the value of a run of digits read left to right, -1 once it leaves the model's range
RECURSIVE DigitsVal(_, _)
DigitsVal(s, acc) ==
    IF s = <<>> THEN acc
    ELSE IF acc > MaxCoef \div 10 THEN -1
    ELSE DigitsVal(Tail(s), 10 * acc + DigitVal(Head(s)))

\* the text without its points
NoPoint(s) == SelectSeq(s, LAMBDA c : c # ".")

\* Decimal(text) accepts: an optional sign, digits with at most one point, at least one digit
IsDecimalText(s) ==
    LET body == IF StartsWithMinus(s) THEN Tail(s) ELSE s
    IN /\ \A i \in 1..Len(body) : IsDigit(body[i]) \/ body[i] = "."
       /\ Count(body, ".") <= 1
       /\ Len(NoPoint(body)) >= 1

\* the digits after the point
FracLen(s) == IF Contains(s, ".") THEN Len(s) - (CHOOSE i \in 1..Len(s) : s[i] = ".") ELSE 0

\* Decimal(text), for a text IsDecimalText accepts
ParseDecimal(s) ==
    LET body == IF StartsWithMinus(s) THEN Tail(s) ELSE s
        c    == DigitsVal(NoPoint(body), 0)
    IN IF c < 0 THEN OutOfRange
       ELSE Ok([neg |-> StartsWithMinus(s), coef |-> c, exp |-> -FracLen(body)])

\* format(d, "f") for a normalized d whose coefficient reads digits
FormatDigits(d, digits) ==
    LET n    == Len(digits)
        body == IF d.exp >= 0 THEN digits \o Zeros(d.exp)
                ELSE IF n > -d.exp
                     THEN SubSeq(digits, 1, n + d.exp) \o <<".">> \o SubSeq(digits, n + d.exp + 1, n)
                ELSE <<"0", ".">> \o Zeros(-d.exp - n) \o digits
    IN IF d.neg THEN <<"-">> \o body ELSE body

FormatNormalized(d) == FormatDigits(d, NatText(d.coef))

\* format(value.normalize(), "f")
FormatF(v) == FormatNormalized(Normalize(v))

(***************************************************************************)
(* src/src/core/evaluator.py: ExpressionEvaluator.  A token is a text; the *)
(* unary-negation token "u-" is the one-element text <<"u-">>.  The three  *)
(* display glyphs of _REPLACEMENTS are the characters named by their code  *)
(* points.                                                                 *)
(***************************************************************************)
Tok(c) == <<c>>

UMINUS == Tok("u-")

\* OPERATORS with "%" given a precedence below that of + and -
OPERATORS_percent_loosest ==
    [t \in {Tok("+"), Tok("-"), Tok("*"), Tok("/"), Tok("%"), UMINUS} |->
        CASE t \in {Tok("+"), Tok("-")} ->
               [precedence |-> 1, associativity |-> "L", operands |-> 2]
          [] t \in {Tok("*"), Tok("/")} ->
               [precedence |-> 2, associativity |-> "L", operands |-> 2]
          [] t = Tok("%") -> [precedence |-> 0, associativity |-> "L", operands |-> 1]
          [] t = UMINUS   -> [precedence |-> 4, associativity |-> "R", operands |-> 1]]

\* OPERATORS with * and / given the precedence of + and -
OPERATORS_one_precedence ==
    [t \in {Tok("+"), Tok("-"), Tok("*"), Tok("/"), Tok("%"), UMINUS} |->
        CASE t \in {Tok("+"), Tok("-"), Tok("*"), Tok("/")} ->
               [precedence |-> 1, associativity |-> "L", operands |-> 2]
          [] t = Tok("%") -> [precedence |-> 3, associativity |-> "L", operands |-> 1]
          [] t = UMINUS   -> [precedence |-> 4, associativity |-> "R", operands |-> 1]]

\* _OPERATORS: precedence, associativity, operands of each operator token
OPERATORS ==
    [t \in {Tok("+"), Tok("-"), Tok("*"), Tok("/"), Tok("%"), UMINUS} |->
        CASE t = Tok("+") -> [precedence |-> 1, associativity |-> "L", operands |-> 2]
          [] t = Tok("-") -> [precedence |-> 1, associativity |-> "L", operands |-> 2]
          [] t = Tok("*") -> [precedence |-> 2, associativity |-> "L", operands |-> 2]
          [] t = Tok("/") -> [precedence |-> 2, associativity |-> "L", operands |-> 2]
          [] t = Tok("%") -> [precedence |-> 3, associativity |-> "L", operands |-> 1]
          [] t = UMINUS   -> [precedence |-> 4, associativity |-> "R", operands |-> 1]]

\* Operator.function of each entry of _OPERATORS
ApplyOperator(t, a, b) ==
    CASE t = Tok("+") -> DecAdd(a, b)
      [] t = Tok("-") -> DecSub(a, b)
      [] t = Tok("*") -> DecMul(a, b)
      [] t = Tok("/") -> DecDiv(a, b)
      [] t = Tok("%") -> DecDiv(a, Hundred)
      [] t = UMINUS   -> DecNeg(a)

\* _REPLACEMENTS, applied to one character
REPLACEMENTS(c) ==
    CASE c = "U+00D7" -> "*"
      [] c = "U+00F7" -> "/"
      [] c = "U+2212" -> "-"
      [] OTHER -> c

\* _normalise_expression: spaces removed, glyphs replaced
normalise_expression(expression) ==
    LET kept == SelectSeq(expression, LAMBDA c : c # " ")
    IN [i \in 1..Len(kept) |-> REPLACEMENTS(kept[i])]

\* _is_number
is_number(token) ==
    /\ token # <<>>
    /\ Count(token, ".") <= 1
    /\ token # <<".">>
    /\ IsDecimalText(token)

\* unary_loop with "%" counted as the previous token
RECURSIVE unary_loop_percent_counts(_, _, _)
unary_loop_percent_counts(tokens, processed, prev_token) ==
    IF tokens = <<>> THEN processed
    ELSE LET token == Head(tokens)
             out   == IF token = Tok("-")
                         /\ (prev_token = <<>> \/ prev_token \in DOMAIN OPERATORS
                             \/ prev_token = Tok("("))
                      THEN UMINUS ELSE token
         IN unary_loop_percent_counts(Tail(tokens), Append(processed, out), out)

\* _handle_unary_minus: the loop, prev_token being <<>> for None
RECURSIVE unary_loop(_, _, _)
unary_loop(tokens, processed, prev_token) ==
    IF tokens = <<>> THEN processed
    ELSE LET token == Head(tokens)
             out   == IF token = Tok("-")
                         /\ (prev_token = <<>> \/ prev_token \in DOMAIN OPERATORS
                             \/ prev_token = Tok("("))
                      THEN UMINUS ELSE token
         IN unary_loop(Tail(tokens), Append(processed, out),
                       IF token # Tok("%") THEN out ELSE prev_token)

handle_unary_minus(tokens) == unary_loop(tokens, <<>>, <<>>)

\* the end of the greedy run of digits and points that starts at i
RECURSIVE RunEnd(_, _)
RunEnd(expression, i) ==
    IF i <= Len(expression) /\ (IsDigit(expression[i]) \/ expression[i] = ".")
    THEN RunEnd(expression, i + 1) ELSE i

\* _tokenise: the scan from position i; [kind |-> "ok", tokens] or the EvaluationError
RECURSIVE tokenise_loop(_, _, _)
tokenise_loop(expression, i, tokens) ==
    IF i > Len(expression) THEN [kind |-> "ok", tokens |-> handle_unary_minus(tokens)]
    ELSE LET ch == expression[i]
         IN IF IsDigit(ch) \/ ch = "."
            THEN LET j     == RunEnd(expression, i + 1)
                     token == SubSeq(expression, i, j - 1)
                 IN IF Count(token, ".") > 1
                    THEN [kind |-> "invalid", tokens |-> <<>>]
                    ELSE tokenise_loop(expression, j, Append(tokens, token))
            ELSE IF ch \in {"+", "-", "*", "/", "(", ")", "%"}
            THEN tokenise_loop(expression, i + 1, Append(tokens, Tok(ch)))
            ELSE [kind |-> "invalid", tokens |-> <<>>]

tokenise(expression) == tokenise_loop(expression, 1, <<>>)

\* _to_rpn, the inner while loop of an operator token: pops to output
RECURSIVE pop_operators(_, _, _)
pop_operators(op_info, output, stack) ==
    IF stack = <<>> THEN [output |-> output, stack |-> stack]
    ELSE LET top == stack[Len(stack)]
         IN IF top = Tok("(") \/ top \notin DOMAIN OPERATORS
            THEN [output |-> output, stack |-> stack]
            ELSE IF \/ (op_info.associativity = "L"
                        /\ op_info.precedence <= OPERATORS[top].precedence)
                    \/ (op_info.associativity = "R"
                        /\ op_info.precedence < OPERATORS[top].precedence)
            THEN pop_operators(op_info, Append(output, top), SubSeq(stack, 1, Len(stack) - 1))
            ELSE [output |-> output, stack |-> stack]

\* _to_rpn, the while loop of ")": pops to output down to the nearest "("
RECURSIVE pop_to_paren(_, _)
pop_to_paren(output, stack) ==
    IF stack # <<>> /\ stack[Len(stack)] # Tok("(")
    THEN pop_to_paren(Append(output, stack[Len(stack)]), SubSeq(stack, 1, Len(stack) - 1))
    ELSE [output |-> output, stack |-> stack]

\* flush_stack discarding a leftover parenthesis instead of failing
RECURSIVE flush_stack_drops_parens(_, _)
flush_stack_drops_parens(output, stack) ==
    IF stack = <<>> THEN [kind |-> "ok", tokens |-> output]
    ELSE LET top == stack[Len(stack)]
         IN IF top \in {Tok("("), Tok(")")}
            THEN flush_stack_drops_parens(output, SubSeq(stack, 1, Len(stack) - 1))
            ELSE flush_stack_drops_parens(Append(output, top),
                                          SubSeq(stack, 1, Len(stack) - 1))

\* _to_rpn, the final while loop: the stack flushed top first
RECURSIVE flush_stack(_, _)
flush_stack(output, stack) ==
    IF stack = <<>> THEN [kind |-> "ok", tokens |-> output]
    ELSE LET top == stack[Len(stack)]
         IN IF top \in {Tok("("), Tok(")")} THEN [kind |-> "invalid", tokens |-> <<>>]
            ELSE flush_stack(Append(output, top), SubSeq(stack, 1, Len(stack) - 1))

\* _to_rpn: the for loop over the tokens
RECURSIVE to_rpn_loop(_, _, _)
to_rpn_loop(tokens, output, stack) ==
    IF tokens = <<>> THEN flush_stack(output, stack)
    ELSE LET token == Head(tokens)
             rest  == Tail(tokens)
         IN IF is_number(token) THEN to_rpn_loop(rest, Append(output, token), stack)
            ELSE IF token = Tok("(") THEN to_rpn_loop(rest, output, Append(stack, token))
            ELSE IF token = Tok(")")
            THEN LET p == pop_to_paren(output, stack)
                 IN IF p.stack = <<>> THEN [kind |-> "invalid", tokens |-> <<>>]
                    ELSE to_rpn_loop(rest, p.output, SubSeq(p.stack, 1, Len(p.stack) - 1))
            ELSE IF token \in DOMAIN OPERATORS
            THEN LET p == pop_operators(OPERATORS[token], output, stack)
                 IN to_rpn_loop(rest, p.output, Append(p.stack, token))
            ELSE [kind |-> "invalid", tokens |-> <<>>]

to_rpn(tokens) == to_rpn_loop(tokens, <<>>, <<>>)

RECURSIVE evaluate_rpn_loop(_, _)

\* _evaluate_rpn, a numeric token: its Decimal v is pushed
push_number(tokens, stack, v) ==
    IF v.kind # "ok" THEN v ELSE evaluate_rpn_loop(Tail(tokens), Append(stack, v.val))

\* _evaluate_rpn, an operator token: the result r of its function is pushed on the
\* stack below its operands, or the exception it raised is handled
push_result(tokens, below, r) ==
    IF r.kind = "DivisionByZero" THEN [kind |-> "zerodiv", val |-> Zero]
    ELSE IF r.kind = "InvalidOperation" THEN [kind |-> "invalid", val |-> Zero]
    ELSE IF r.kind # "ok" THEN r
    ELSE evaluate_rpn_loop(Tail(tokens), Append(below, r.val))

\* _evaluate_rpn: the for loop over the postfix tokens, stack a sequence of Decimals
evaluate_rpn_loop(tokens, stack) ==
    IF tokens = <<>>
    THEN IF Len(stack) # 1 THEN [kind |-> "invalid", val |-> Zero]
         ELSE [kind |-> "ok", val |-> stack[1]]
    ELSE LET token == Head(tokens)
             n     == Len(stack)
         IN IF is_number(token) THEN push_number(tokens, stack, ParseDecimal(token))
            ELSE IF token \notin DOMAIN OPERATORS THEN [kind |-> "invalid", val |-> Zero]
            ELSE IF n < OPERATORS[token].operands THEN [kind |-> "invalid", val |-> Zero]
            ELSE push_result(tokens, SubSeq(stack, 1, n - OPERATORS[token].operands),
                             IF OPERATORS[token].operands = 1
                             THEN ApplyOperator(token, stack[n], Zero)
                             ELSE ApplyOperator(token, stack[n - 1], stack[n]))

evaluate_rpn(tokens) == evaluate_rpn_loop(tokens, <<>>)

\* evaluate, after _to_rpn: rpn is its [kind, tokens]
evaluate_postfix(rpn) ==
    IF rpn.kind # "ok" THEN [kind |-> "invalid", val |-> Zero] ELSE evaluate_rpn(rpn.tokens)

\* evaluate, after _tokenise: tokens is its [kind, tokens]
evaluate_tokens(tokens) ==
    IF tokens.kind # "ok" THEN [kind |-> "invalid", val |-> Zero]
    ELSE evaluate_postfix(to_rpn(tokens.tokens))

\* evaluate: [kind, val] with kind "ok" (val returned), "invalid" (EvaluationError),
\* "zerodiv" (ZeroDivisionError) or "range"
evaluate(expression) == evaluate_tokens(tokenise(normalise_expression(expression)))

\* text.rstrip("0").rstrip(".") when the text has a point
strip_fraction(text) ==
    IF Contains(text, ".") THEN RStrip(RStrip(text, "0"), ".") ELSE text

\* format_decimal returning the text of a negative zero as it is
plain_zero_kept(text) == text

\* format_decimal, its last lines
plain_zero(text) ==
    IF text \in {<<"-", "0">>, <<"-", "0", ".", "0">>} THEN <<"0">> ELSE text

\* format_decimal
format_decimal(value) == plain_zero(strip_fraction(FormatF(value)))

(***************************************************************************)
(* src/src/ui/main_window.py: the input session of CalculatorWindow.  The  *)
(* handlers are operators on the record s of the window's fields; display  *)
(* is the text of the QLineEdit.  Two fields are book-keeping of the       *)
(* model: call, the call of evaluate() the handler made (the tokens it     *)
(* joined, the expression, the result), and oor, set when a Decimal of the *)
(* handler left the model's range.                                         *)
(***************************************************************************)
VARIABLES expression_tokens, current_input, last_output, last_value, just_evaluated,
          error_state, display, event, prev, call, input, presses

vars == <<expression_tokens, current_input, last_output, last_value, just_evaluated,
          error_state, display, event, prev, call, input, presses>>

session_vars == <<expression_tokens, current_input, last_output, last_value, just_evaluated,
                  error_state, display>>

ErrorText == <<"E", "r", "r", "o", "r">>

NoCall ==
    [made |-> FALSE, tokens |-> <<>>, expression |-> <<>>,
     result |-> [kind |-> "none", val |-> Zero]]

\* _OPERATOR_MAP: the button labels (the glyphs named by their code points) to operators
OPERATOR_MAP ==
    [label \in {"+", "U+2212", "U+00D7", "U+00F7"} |->
        CASE label = "+" -> Tok("+")
          [] label = "U+2212" -> Tok("-")
          [] label = "U+00D7" -> Tok("*")
          [] label = "U+00F7" -> Tok("/")]

\* self._OPERATOR_MAP.values()
OperatorValues == {OPERATOR_MAP[label] : label \in DOMAIN OPERATOR_MAP}

\* the fields of the window, as prev keeps them
Fields ==
    [expression_tokens |-> expression_tokens, current_input |-> current_input,
     last_output |-> last_output, last_value |-> last_value,
     just_evaluated |-> just_evaluated, error_state |-> error_state,
     display |-> display]

\* the fields of the window as the record the handlers work on
Session ==
    [expression_tokens |-> expression_tokens, current_input |-> current_input,
     last_output |-> last_output, last_value |-> last_value,
     just_evaluated |-> just_evaluated, error_state |-> error_state,
     display |-> display, call |-> NoCall, oor |-> FALSE]

\* _decimal_to_string, its last lines
plain_zero_or_empty(text) ==
    IF text \in {<<>>, <<"-", "0">>, <<"-", "0", ".", "0">>} THEN <<"0">>
    ELSE IF text = <<"-">> THEN <<"0">>
    ELSE text

\* _decimal_to_string
decimal_to_string(value) == plain_zero_or_empty(strip_fraction(FormatF(value)))

\* _canonical_to_display, after Decimal(value) gave d
canonical_of(value, d) ==
    IF d.kind # "ok" THEN [text |-> value, oor |-> TRUE]
    ELSE [text |-> format_decimal(d.val), oor |-> FALSE]

\* _canonical_to_display: [text, oor]
canonical_to_display(value) ==
    IF ~IsDecimalText(value) THEN [text |-> value, oor |-> FALSE]
    ELSE canonical_of(value, ParseDecimal(value))

\* display_text showing a negative zero as it is typed
display_text_keeps_negative_zero(text) ==
    IF text \in {<<>>, <<"-">>} THEN <<"0">> ELSE text

\* display_text showing "0" for "-0." as it does for "-0"
display_text_drops_point(text) ==
    IF text \in {<<>>, <<"-">>, <<"-", "0">>, <<"-", "0", ".">>} THEN <<"0">> ELSE text

\* _update_display, its last lines: the canonical form of the text to show
display_text(text) ==
    LET text2 == IF text \in {<<"-", "0">>, <<"-", "0", ".">>}
                 THEN SelectSeq(text, LAMBDA c : c # "-") ELSE text
    IN IF text2 \in {<<>>, <<"-">>} THEN <<"0">> ELSE text2

\* _update_display: the display form of the last token when it is a number
last_token_display(tokens) ==
    IF tokens # <<>> /\ tokens[Len(tokens)] \notin OperatorValues
    THEN canonical_to_display(tokens[Len(tokens)])
    ELSE [text |-> <<>>, oor |-> FALSE]

\* _update_display: the text it chooses, shown being last_token_display
chosen_text(s, shown) ==
    IF s.current_input # <<>> THEN s.current_input
    ELSE IF s.expression_tokens # <<>>
    THEN IF s.expression_tokens[Len(s.expression_tokens)] \in OperatorValues
         THEN s.last_output
         ELSE shown.text
    ELSE s.last_output

\* _update_display outside an error state
display_chosen(s, shown) ==
    [s EXCEPT !.display = display_text(chosen_text(s, shown)),
              !.oor = s.oor \/ (s.current_input = <<>> /\ shown.oor)]

\* _update_display
update_display(s) ==
    IF s.error_state THEN [s EXCEPT !.display = ErrorText]
    ELSE display_chosen(s, last_token_display(s.expression_tokens))

\* show_error leaving the failed expression in expression_tokens
show_error_keeps_tokens(s) ==
    [s EXCEPT !.current_input = <<>>, !.last_output = ErrorText,
              !.error_state = TRUE, !.just_evaluated = FALSE, !.display = ErrorText]

\* _show_error
show_error(s) ==
    [s EXCEPT !.expression_tokens = <<>>, !.current_input = <<>>, !.last_output = ErrorText,
              !.error_state = TRUE, !.just_evaluated = FALSE, !.display = ErrorText]

\* _clear_all
clear_all(s) ==
    update_display([s EXCEPT !.expression_tokens = <<>>, !.current_input = <<>>,
                             !.last_output = <<"0">>, !.last_value = Zero,
                             !.just_evaluated = FALSE, !.error_state = FALSE])

\* _push_current_to_tokens, after Decimal(self._current_input) gave value
push_value(s, value) ==
    IF value.kind # "ok" THEN [s EXCEPT !.oor = TRUE]
    ELSE [s EXCEPT !.expression_tokens = Append(@, decimal_to_string(value.val)),
                   !.last_value = value.val,
                   !.last_output = format_decimal(value.val),
                   !.current_input = <<>>]

\* _push_current_to_tokens: the record after it (its boolean result is never used)
push_current_to_tokens(s) ==
    IF s.current_input = <<>> \/ s.current_input = <<"-">> THEN s
    ELSE IF ~IsDecimalText(s.current_input) THEN show_error(s)
    ELSE push_value(s, ParseDecimal(s.current_input))

\* _find_last_number_index: 0 for None
find_last_number_index(s) ==
    LET numeric == {i \in 1..Len(s.expression_tokens) :
                        s.expression_tokens[i] \notin OperatorValues}
    IN IF numeric = {} THEN 0 ELSE CHOOSE i \in numeric : \A j \in numeric : j <= i

\* _append_digit and _append_decimal: a new entry after a result starts afresh
start_afresh(s) ==
    IF s.just_evaluated
    THEN [s EXCEPT !.expression_tokens = <<>>, !.current_input = <<>>,
                   !.just_evaluated = FALSE]
    ELSE s

\* the preamble of _append_digit and _append_decimal
input_preamble(s) == start_afresh(IF s.error_state THEN clear_all(s) ELSE s)

\* the buffer becomes buf and is what the display shows
set_buffer(s, buf) == update_display([s EXCEPT !.current_input = buf, !.last_output = buf])

\* digit_buffer losing the sign of a buffer "-0"
digit_buffer_drops_sign(current, digit) ==
    IF current \in {<<"0">>, <<"-", "0">>} THEN <<digit>> ELSE Append(current, digit)

\* _append_digit: the buffer with the digit
digit_buffer(current, digit) ==
    LET buf == IF current \in {<<"0">>, <<"-", "0">>}
               THEN IF StartsWithMinus(current) THEN <<"-", digit>> ELSE <<digit>>
               ELSE Append(current, digit)
    IN IF buf = <<>> THEN <<digit>> ELSE buf

\* _append_digit after its preamble
enter_digit(s, digit) ==
    IF s.current_input \in {<<"0">>, <<"-", "0">>} /\ digit = "0" THEN update_display(s)
    ELSE set_buffer(s, digit_buffer(s.current_input, digit))

\* append_digit without the reset of an error state
append_digit_no_reset(s, digit) == enter_digit(start_afresh(s), digit)

\* _append_digit
append_digit(s, digit) == enter_digit(input_preamble(s), digit)

\* _append_decimal: the buffer with the point
point_buffer(target) ==
    IF target = <<"-", "0">> THEN <<"-", "0", ".">> ELSE Append(target, ".")

\* enter_point without the test for a point already in the buffer
enter_point_always_appends(s, target) == set_buffer(s, point_buffer(target))

\* _append_decimal, target being self._current_input or "0"
enter_point(s, target) ==
    IF Contains(target, ".") THEN update_display(s) ELSE set_buffer(s, point_buffer(target))

\* _append_decimal after its preamble
enter_decimal(s) == enter_point(s, IF s.current_input # <<>> THEN s.current_input ELSE <<"0">>)

\* _append_decimal
append_decimal(s) == enter_decimal(input_preamble(s))

\* place_operator appending whatever the last token is
place_operator_always_appends(tokens, operator) == Append(tokens, operator)

\* _apply_operator, its last branch: a trailing operator is replaced, else one is appended
place_operator(tokens, operator) ==
    IF tokens # <<>> /\ tokens[Len(tokens)] \in OperatorValues
    THEN [tokens EXCEPT ![Len(tokens)] = operator]
    ELSE Append(tokens, operator)

\* _apply_operator: an operator after a result continues from it
continue_from_result(s) ==
    IF s.just_evaluated THEN [s EXCEPT !.expression_tokens = <<>>, !.just_evaluated = FALSE]
    ELSE s

\* a buffer that is not empty is pushed
push_buffer(s) == IF s.current_input # <<>> THEN push_current_to_tokens(s) ELSE s

\* seed_expression taking the operand from last_output
seed_expression_from_output(s) ==
    IF s.expression_tokens = <<>> THEN [s EXCEPT !.expression_tokens = <<s.last_output>>]
    ELSE s

\* _apply_operator: an empty expression starts with last_value
seed_expression(s) ==
    IF s.expression_tokens = <<>>
    THEN [s EXCEPT !.expression_tokens = <<decimal_to_string(s.last_value)>>]
    ELSE s

\* operator_placed without the operator
operator_placed_no_operator(s, operator) == update_display(s)

\* _apply_operator, its last lines
operator_placed(s, operator) ==
    update_display([s EXCEPT !.expression_tokens = place_operator(@, operator)])

\* _apply_operator
apply_operator(s, symbol) ==
    IF s.error_state THEN clear_all(s)
    ELSE operator_placed(seed_expression(push_buffer(continue_from_result(s))),
                         OPERATOR_MAP[symbol])

\* result_success leaving the evaluated tokens in place
result_success_keeps_tokens(s, result) ==
    update_display([s EXCEPT !.last_value = result,
                             !.current_input = format_decimal(result),
                             !.last_output = format_decimal(result),
                             !.just_evaluated = TRUE])

\* result_success leaving last_value as it was
result_success_stale_value(s, result) ==
    update_display([s EXCEPT !.current_input = format_decimal(result),
                             !.last_output = format_decimal(result),
                             !.expression_tokens = <<>>,
                             !.just_evaluated = TRUE])

\* _calculate_result, its tail after a successful evaluation
result_success(s, result) ==
    update_display([s EXCEPT !.last_value = result,
                             !.current_input = format_decimal(result),
                             !.last_output = format_decimal(result),
                             !.expression_tokens = <<>>,
                             !.just_evaluated = TRUE])

\* _calculate_result, after evaluate() returned or raised: the call is recorded
after_evaluate(s, result) ==
    IF result.kind = "range" THEN [s EXCEPT !.oor = TRUE]
    ELSE IF result.kind # "ok" THEN show_error(s)
    ELSE result_success(s, result.val)

\* _calculate_result: the call of evaluate() on the joined tokens
call_evaluate(s, expression, result) ==
    after_evaluate([s EXCEPT !.call = [made |-> TRUE, tokens |-> s.expression_tokens,
                                       expression |-> expression, result |-> result]],
                   result)

\* _calculate_result, expression being "".join(self._expression_tokens)
evaluate_joined(s, expression) ==
    IF expression = <<>> THEN update_display(s)
    ELSE call_evaluate(s, expression, evaluate(expression))

\* _calculate_result once the tokens are complete
evaluate_session(s) == IF s.oor THEN s ELSE evaluate_joined(s, Join(s.expression_tokens))

\* complete_tokens leaving a trailing operator in place
complete_tokens_keeps_operator(s) ==
    IF s.current_input # <<>> THEN push_current_to_tokens(s) ELSE s

\* _calculate_result: the buffer is pushed, or else a trailing operator is dropped
complete_tokens(s) ==
    IF s.current_input # <<>> THEN push_current_to_tokens(s)
    ELSE IF s.expression_tokens # <<>>
            /\ s.expression_tokens[Len(s.expression_tokens)] \in OperatorValues
    THEN [s EXCEPT !.expression_tokens = SubSeq(@, 1, Len(@) - 1)]
    ELSE s

\* _calculate_result
calculate_result(s) ==
    IF s.error_state THEN clear_all(s) ELSE evaluate_session(complete_tokens(s))

\* _clear_entry
clear_entry(s) ==
    IF s.error_state THEN clear_all(s)
    ELSE update_display([s EXCEPT !.current_input = <<>>, !.last_output = <<"0">>,
                                  !.just_evaluated = FALSE])

\* _backspace
backspace(s) ==
    IF s.error_state THEN clear_all(s)
    ELSE IF s.current_input = <<>> THEN update_display(s)
    ELSE LET cut == SubSeq(s.current_input, 1, Len(s.current_input) - 1)
             buf == IF cut \in {<<>>, <<"-">>} THEN <<>> ELSE cut
         IN update_display([s EXCEPT !.current_input = buf,
                                     !.last_output = IF buf # <<>> THEN buf ELSE <<"0">>,
                                     !.just_evaluated = FALSE])

\* toggle_sign leaving just_evaluated as it was
toggle_sign_keeps_flag(s) ==
    IF s.error_state THEN clear_all(s)
    ELSE LET seeded == IF s.current_input # <<>> THEN s.current_input
                       ELSE IF s.just_evaluated THEN s.last_output ELSE <<"0">>
             buf == IF StartsWithMinus(seeded) THEN Tail(seeded) ELSE <<"-">> \o seeded
         IN update_display([s EXCEPT !.current_input = buf, !.last_output = buf])

\* _toggle_sign
toggle_sign(s) ==
    IF s.error_state THEN clear_all(s)
    ELSE LET seeded == IF s.current_input # <<>> THEN s.current_input
                       ELSE IF s.just_evaluated THEN s.last_output ELSE <<"0">>
             buf == IF StartsWithMinus(seeded) THEN Tail(seeded) ELSE <<"-">> \o seeded
         IN update_display([s EXCEPT !.current_input = buf, !.last_output = buf,
                                     !.just_evaluated = FALSE])

\* percent_done leaving last_value as it was
percent_done_stale_value(s, value) ==
    update_display([s EXCEPT !.last_output = format_decimal(value), !.just_evaluated = FALSE])

\* _apply_percent, the tail shared by its branches
percent_done(s, value) ==
    update_display([s EXCEPT !.last_value = value, !.last_output = format_decimal(value),
                             !.just_evaluated = FALSE])

\* _apply_percent: the text of the percentage stored, in the buffer and, when the
\* number was a token, in its place (index 0: the number was the buffer)
percent_text(s, index, text) ==
    IF index = 0 THEN [s EXCEPT !.current_input = text]
    ELSE [s EXCEPT !.expression_tokens[index] = text, !.current_input = text]

\* _apply_percent, after the division by 100 gave q
percent_store(s, index, q) ==
    IF q.kind # "ok" THEN [s EXCEPT !.oor = TRUE]
    ELSE percent_done(percent_text(s, index, decimal_to_string(q.val)), q.val)

\* _apply_percent, after Decimal(text) gave p
percent_of(s, index, p) ==
    IF p.kind # "ok" THEN [s EXCEPT !.oor = TRUE]
    ELSE percent_store(s, index, DecDiv(p.val, Hundred))

\* _apply_percent with an empty buffer, index being _find_last_number_index()
percent_of_token(s, index) ==
    IF index = 0 THEN percent_done([s EXCEPT !.current_input = <<"0">>], Zero)
    ELSE IF ~IsDecimalText(s.expression_tokens[index]) THEN show_error(s)
    ELSE percent_of(s, index, ParseDecimal(s.expression_tokens[index]))

\* _apply_percent
apply_percent(s) ==
    IF s.error_state THEN clear_all(s)
    ELSE IF s.current_input # <<>>
    THEN IF ~IsDecimalText(s.current_input) THEN show_error(s)
         ELSE percent_of(s, 0, ParseDecimal(s.current_input))
    ELSE percent_of_token(s, find_last_number_index(s))

\* str.isdigit() of a button label
IsDigitLabel(label) == IsDigit(label)

\* _handle_button; the labels of the backspace and sign buttons are named by their
\* code points
handle_button(s, label) ==
    IF IsDigitLabel(label) THEN append_digit(s, label)
    ELSE IF label = "." THEN append_decimal(s)
    ELSE IF label \in {"+", "U+2212", "U+00D7", "U+00F7"} THEN apply_operator(s, label)
    ELSE IF label = "=" THEN calculate_result(s)
    ELSE IF label = "C" THEN clear_all(s)
    ELSE IF label = "CE" THEN clear_entry(s)
    ELSE IF label = "U+232B" THEN backspace(s)
    ELSE IF label = "U+00B1" THEN toggle_sign(s)
    ELSE IF label = "%" THEN apply_percent(s)
    ELSE s

(***************************************************************************)
(* The session as a state machine: one action per button of                *)
(* _handle_button.  event is the last event handled, prev the fields as    *)
(* they were before it, presses the number of events handled so far.       *)
(***************************************************************************)
\* the digit buttons of the model
DigitKeys == {"0", "2"}

Install(s, ev) ==
    /\ ~s.oor
    /\ presses' = presses + 1
    /\ expression_tokens' = s.expression_tokens
    /\ current_input' = s.current_input
    /\ last_output' = s.last_output
    /\ last_value' = s.last_value
    /\ just_evaluated' = s.just_evaluated
    /\ error_state' = s.error_state
    /\ display' = s.display
    /\ call' = s.call
    /\ event' = ev
    /\ prev' = Fields
    /\ UNCHANGED input

\* the fields after CalculatorWindow.__init__
Constructed ==
    [expression_tokens |-> <<>>, current_input |-> <<>>, last_output |-> <<"0">>,
     last_value |-> Zero, just_evaluated |-> FALSE, error_state |-> FALSE,
     display |-> <<"0">>, call |-> NoCall, oor |-> FALSE]

\* the session after the buttons of labels are pressed in turn, starting from s
RECURSIVE Play(_, _)
Play(s, labels) ==
    IF labels = <<>> THEN s
    ELSE Play(handle_button([s EXCEPT !.call = NoCall], Head(labels)), Tail(labels))

\* the event does not grow the buffer beyond MaxInputLen
BufferBound(s) ==
    Len(s.current_input) <= MaxInputLen \/ Len(s.current_input) <= Len(current_input)

\* CalculatorWindow.__init__
Init ==
    /\ expression_tokens = <<>>
    /\ current_input = <<>>
    /\ last_output = <<"0">>
    /\ last_value = Zero
    /\ just_evaluated = FALSE
    /\ error_state = FALSE
    /\ display = <<"0">>
    /\ event = [name |-> "init", arg |-> ""]
    /\ prev = Fields
    /\ call = NoCall
    /\ input = <<>>
    /\ presses = 0

\* a Digit or DecimalPoint event, taken within the buffer bound
InstallInput(s, ev) == BufferBound(s) /\ Install(s, ev)

\* an Operator event, taken while expression_tokens stays within MaxTokens
InstallOperator(s, ev) == Len(s.expression_tokens) <= MaxTokens /\ Install(s, ev)

Digit(d) ==
    /\ presses < MaxEvents
    /\ InstallInput(handle_button(Session, d), [name |-> "digit", arg |-> d])

DecimalPoint ==
    /\ presses < MaxEvents
    /\ InstallInput(handle_button(Session, "."), [name |-> ".", arg |-> ""])

Operator(label) ==
    /\ presses < MaxEvents
    /\ InstallOperator(handle_button(Session, label), [name |-> "operator", arg |-> label])

Equals ==
    /\ presses < MaxEvents
    /\ Install(handle_button(Session, "="), [name |-> "=", arg |-> ""])

ClearAll ==
    /\ presses < MaxEvents
    /\ Install(handle_button(Session, "C"), [name |-> "C", arg |-> ""])

ClearEntry ==
    /\ presses < MaxEvents
    /\ Install(handle_button(Session, "CE"), [name |-> "CE", arg |-> ""])

Backspace ==
    /\ presses < MaxEvents
    /\ Install(handle_button(Session, "U+232B"), [name |-> "backspace", arg |-> ""])

ToggleSign ==
    /\ presses < MaxEvents
    /\ Install(handle_button(Session, "U+00B1"), [name |-> "toggle", arg |-> ""])

Percent ==
    /\ presses < MaxEvents
    /\ Install(handle_button(Session, "%"), [name |-> "%", arg |-> ""])

Next ==
    \/ \E d \in DigitKeys : Digit(d)
    \/ DecimalPoint
    \/ \E label \in DOMAIN OPERATOR_MAP : Operator(label)
    \/ Equals
    \/ ClearAll
    \/ ClearEntry
    \/ Backspace
    \/ ToggleSign
    \/ Percent

Spec == Init /\ [][Next]_vars

(***************************************************************************)
(* evaluate() as a pure function: input is a sequence of tokens, appended  *)
(* one at a time or taken from the expressions of tests/test_evaluator.py; *)
(* Evaluate applies evaluate() to their concatenation and records the call.*)
(***************************************************************************)
NumberTokens == {<<"0">>, <<"2">>, <<"5">>}

SymbolTokens == {Tok("+"), Tok("-"), Tok("*"), Tok("/"), Tok("%"), Tok("("), Tok(")")}

InputTokens == NumberTokens \cup SymbolTokens

\* a token made of digits and points only
IsNumeric(t) == t # <<>> /\ \A i \in 1..Len(t) : IsDigit(t[i]) \/ t[i] = "."

\* the expressions of test_expression_evaluation, test_division_by_zero and
\* test_invalid_expressions_raise, and longer expressions of the same shapes
Samples ==
    << <<Tok("2"), Tok("+"), Tok("3")>>,
       <<Tok("2"), Tok("+"), Tok("3"), Tok("*"), Tok("4")>>,
       <<<<"1", "0">>, Tok("/"), Tok("2"), Tok("+"), Tok("3")>>,
       <<Tok("5"), Tok("-"), <<"1", "0">> >>,
       <<<<"2", ".", "5">>, Tok("+"), <<"4", ".", "7", "5">> >>,
       <<<<"0", ".", "1">>, Tok("+"), <<"0", ".", "2">> >>,
       <<Tok("1"), Tok("/"), Tok("3")>>,
       <<Tok("("), <<".", "5">>, Tok("+"), <<".", "5">>, Tok(")"), Tok("*"), Tok("4")>>,
       <<Tok("3"), Tok("+"), Tok("-"), Tok("2")>>,
       <<<<"2", "0", "0">>, Tok("*"), <<"1", "0">>, Tok("%")>>,
       <<<<"5", "0">>, Tok("%")>>,
       <<<<"2", "0", "0">>, Tok("/"), Tok("4"), Tok("/"), Tok("5")>>,
       <<Tok("("), Tok("("), Tok("2"), Tok("+"), Tok("3"), Tok(")"), Tok("*"), Tok("4"),
         Tok(")"), Tok("-"), Tok("5")>>,
       <<Tok("5"), Tok("-"), Tok("-"), Tok("3")>>,
       <<<<"1", "2">>, Tok("U+00F7"), Tok("4")>>,
       <<Tok("7"), Tok("U+00D7"), Tok("8"), Tok("-"), Tok("4")>>,
       <<<<"1", ".", "5">>, Tok("U+00D7"), <<"2", ".", "0">> >>,
       <<Tok("-"), <<".", "5">>, Tok("+"), Tok("1")>>,
       <<Tok("("), Tok("("), Tok("1"), Tok("+"), Tok("1"), Tok(")"), Tok(")")>>,
       <<<<"1", "0">>, Tok("-"), Tok("3"), Tok("*"), Tok("2"), Tok("+"), Tok("4"), Tok("/"),
         Tok("2")>>,
       <<Tok("5"), Tok("-"), Tok("2"), Tok("+"), Tok("3"), Tok("-"), Tok("4"), Tok("+"),
         Tok("6")>>,
       <<Tok("0"), Tok("/"), Tok("0")>>,
       <<Tok("5"), Tok("+"), Tok("+")>>,
       <<<<"a", "b", "c">> >>,
       <<Tok("("), Tok("1"), Tok("+"), Tok("2")>>,
       <<Tok("1"), Tok("/"), Tok("/"), Tok("2")>>,
       <<<<"5", "0">>, Tok("%"), Tok("-"), Tok("3")>>,
       <<Tok("5"), Tok("/"), Tok("("), Tok("2"), Tok("-"), Tok("2"), Tok(")")>>,
       <<Tok("("), Tok("2"), Tok("+"), Tok("2"), Tok(")"), Tok("%")>>,
       <<Tok("1"), Tok(" "), Tok("+"), Tok(" "), Tok("2")>>,
       <<<<"1", ".", "2", ".", "3">> >>,
       <<Tok(".")>>,
       <<Tok("("), Tok("5"), Tok("-"), Tok("2"), Tok(")"), Tok("%")>>,
       <<Tok("("), Tok("2"), Tok("*"), Tok("5"), Tok(")"), Tok("%")>>,
       <<Tok("("), Tok("5"), Tok("/"), Tok("2"), Tok(")"), Tok("%")>> >>

AppendToken(t) ==
    /\ Len(input) < MaxExprLen
    /\ ~(input # <<>> /\ IsNumeric(input[Len(input)]) /\ IsNumeric(t))
    /\ input' = Append(input, t)
    /\ call' = NoCall
    /\ UNCHANGED <<session_vars, event, prev, presses>>

LoadSample(i) ==
    /\ input = <<>>
    /\ input' = Samples[i]
    /\ call' = NoCall
    /\ UNCHANGED <<session_vars, event, prev, presses>>

\* the call of evaluate() recorded, unless its Decimals leave the model's range
RecordCall(expression, result) ==
    /\ result.kind # "range"
    /\ call' = [made |-> TRUE, tokens |-> input, expression |-> expression,
                result |-> result]
    /\ UNCHANGED <<session_vars, event, prev, presses, input>>

Evaluate ==
    /\ ~call.made
    /\ RecordCall(Join(input), evaluate(Join(input)))

NextEval ==
    \/ \E t \in InputTokens : AppendToken(t)
    \/ \E i \in 1..Len(Samples) : LoadSample(i)
    \/ Evaluate

SpecEval == Init /\ [][NextEval]_vars

(***************************************************************************)
(* Reference notions the properties are stated with.                       *)
(***************************************************************************)
BinaryOps == {Tok("+"), Tok("-"), Tok("*"), Tok("/")}

\* number, operator, number, ..., number: the operands are decimal texts
Alternating(ts) ==
    /\ Len(ts) % 2 = 1
    /\ \A i \in 1..Len(ts) : IF i % 2 = 1 THEN IsDecimalText(ts[i]) ELSE ts[i] \in BinaryOps

\* the operators of an alternating token sequence
OpsOf(ts) == [i \in 1..(Len(ts) \div 2) |-> ts[2 * i]]

\* binary operation op on two Decimals
RefApply(op, a, b) ==
    CASE op = Tok("+") -> DecAdd(a, b)
      [] op = Tok("-") -> DecSub(a, b)
      [] op = Tok("*") -> DecMul(a, b)
      [] op = Tok("/") -> DecDiv(a, b)

\* remove element i of a sequence
Without(q, i) == SubSeq(q, 1, i - 1) \o SubSeq(q, i + 1, Len(q))

\* The value of vals[1] ops[1] vals[2] ... by the school rule: the leftmost * or / is
\* carried out first as long as there is one, then the leftmost + or -.
RECURSIVE RefReduce(_, _)
RefReduce(vals, ops) ==
    IF ops = <<>> THEN [kind |-> "ok", val |-> vals[1]]
    ELSE LET tight == {i \in 1..Len(ops) : ops[i] \in {Tok("*"), Tok("/")}}
             i == IF tight = {} THEN 1 ELSE CHOOSE k \in tight : \A j \in tight : k <= j
             r == RefApply(ops[i], vals[i], vals[i + 1])
         IN IF r.kind # "ok" THEN r
            ELSE RefReduce([Without(vals, i + 1) EXCEPT ![i] = r.val], Without(ops, i))

\* the reference value of an alternating token sequence
RefValue(ts) ==
    LET parsed == [i \in 1..((Len(ts) + 1) \div 2) |-> ParseDecimal(ts[2 * i - 1])]
    IN IF \E i \in DOMAIN parsed : parsed[i].kind # "ok" THEN OutOfRange
       ELSE RefReduce([i \in DOMAIN parsed |-> parsed[i].val], OpsOf(ts))

\* the last event was an Equals that called evaluate()
EqualsCalled == event.name = "=" /\ call.made

(***************************************************************************)
(* C1: an Equals whose expression evaluates successfully to r leaves       *)
(* last_value = r, current_input = last_output = format_decimal(r),        *)
(* expression_tokens empty, just_evaluated set and the display showing     *)
(* format_decimal(r); r is the value of the entered sequence with * and /  *)
(* binding tighter than + and -; the keys 2, +, 3, = display "5".          *)
(***************************************************************************)
\* the keys 2, +, 3, = display "5"
C1_Example == Play(Constructed, <<"2", "+", "3", "=">>).display = <<"5">>

C1_EqualsSuccess ==
    /\ (EqualsCalled /\ call.result.kind = "ok") =>
          /\ NumEq(last_value, call.result.val)
          /\ current_input = format_decimal(call.result.val)
          /\ last_output = format_decimal(call.result.val)
          /\ expression_tokens = <<>>
          /\ just_evaluated
          /\ ~error_state
          /\ display = format_decimal(call.result.val)
          /\ Alternating(call.tokens)
          /\ RefValue(call.tokens).kind = "ok"
          /\ NumEq(call.result.val, RefValue(call.tokens).val)
    /\ C1_Example

\* an Equals has evaluated a three-operand expression mixing + and * successfully
C1_Witness ==
    /\ EqualsCalled
    /\ call.result.kind = "ok"
    /\ Len(call.tokens) = 5
    /\ call.tokens[2] = Tok("+")
    /\ call.tokens[4] = Tok("*")
    /\ display = <<"6">>

(***************************************************************************)
(* C2: an Equals whose expression fails to evaluate, by EvaluationError or *)
(* by division by zero, leaves the error display state: expression_tokens  *)
(* and current_input empty, last_output the error marker, error_state set, *)
(* just_evaluated clear, the display "Error"; the keys 8, /, 0, = end so.  *)
(***************************************************************************)
ErrorDisplay(f) ==
    /\ f.expression_tokens = <<>>
    /\ f.current_input = <<>>
    /\ f.last_output = ErrorText
    /\ f.error_state
    /\ ~f.just_evaluated
    /\ f.display = ErrorText

\* the keys 8, /, 0, = end in the error display state
C2_Example == ErrorDisplay(Play(Constructed, <<"8", "U+00F7", "0", "=">>))

C2_EqualsFailure ==
    /\ (EqualsCalled /\ call.result.kind \in {"invalid", "zerodiv"}) => ErrorDisplay(Fields)
    /\ C2_Example

\* an Equals has failed on a division by zero
C2_Witness ==
    /\ EqualsCalled
    /\ ~prev.error_state
    /\ call.result.kind = "zerodiv"
    /\ error_state

(***************************************************************************)
(* C3: from a state with error_state set every event clears the flag.      *)
(* ClearAll, Operator, Equals, ClearEntry, Backspace, ToggleSign and       *)
(* Percent leave the full-reset state and do nothing else; Digit d and     *)
(* DecimalPoint act as on the full-reset state and show d and "0.".        *)
(***************************************************************************)
FullReset(f) ==
    /\ f.expression_tokens = <<>>
    /\ f.current_input = <<>>
    /\ NumEq(f.last_value, Zero)
    /\ f.last_output = <<"0">>
    /\ ~f.just_evaluated
    /\ ~f.error_state
    /\ f.display = <<"0">>

\* the fields of a handler's record
FieldsOf(s) ==
    [expression_tokens |-> s.expression_tokens, current_input |-> s.current_input,
     last_output |-> s.last_output, last_value |-> s.last_value,
     just_evaluated |-> s.just_evaluated, error_state |-> s.error_state,
     display |-> s.display]

C3_ErrorClearedByNextEvent ==
    (prev.error_state /\ event.name # "init") =>
        /\ ~error_state
        /\ event.name \in {"C", "operator", "=", "CE", "backspace", "toggle", "%"} =>
              FullReset(Fields)
        /\ event.name = "digit" =>
              /\ Fields = FieldsOf(handle_button(Constructed, event.arg))
              /\ current_input = <<event.arg>>
              /\ display = <<event.arg>>
        /\ event.name = "." =>
              /\ Fields = FieldsOf(handle_button(Constructed, "."))
              /\ current_input = <<"0", ".">>
              /\ display = <<"0", ".">>

\* a Digit event has been handled in the error state
C3_Witness == prev.error_state /\ event.name = "digit" /\ event.arg = "2" /\ ~error_state

\* an Operator event has been handled in the error state
C3_WitnessOperator == prev.error_state /\ event.name = "operator" /\ ~error_state

(***************************************************************************)
(* The reference reading of a token sequence, by recursive descent:        *)
(*   expr  ::= term { addop term }     term    ::= unary { mulop unary }   *)
(*   unary ::= "-" unary | postfix     postfix ::= primary { "%" }         *)
(*   primary ::= number | "(" expr ")"                                     *)
(* with addop one of + - and mulop one of * and /.                         *)
(* A parse answers [syntax, fault, val, next]: syntax is FALSE when the    *)
(* tokens from the start position are no such phrase, fault is "none",     *)
(* "divzero" (a division by a zero divisor) or "range", next the position  *)
(* after the phrase.                                                       *)
(***************************************************************************)
\* a numeric literal: digits with at most one point and at least one digit
IsNumberToken(t) == IsNumeric(t) /\ Count(t, ".") <= 1 /\ t # <<".">>

NoParse == [syntax |-> FALSE, fault |-> "none", val |-> Zero, next |-> 0]

\* the faults of two steps together
Faults(f, g) ==
    IF f = "range" \/ g = "range" THEN "range"
    ELSE IF f = "divzero" \/ g = "divzero" THEN "divzero"
    ELSE "none"

\* the parse after an operation with result r on phrases with faults f and g
RefResult(r, f, g, next) ==
    [syntax |-> TRUE,
     fault |-> Faults(Faults(f, g),
                      IF r.kind = "ok" THEN "none"
                      ELSE IF r.kind = "range" THEN "range" ELSE "divzero"),
     val |-> IF r.kind = "ok" THEN r.val ELSE Zero,
     next |-> next]

RECURSIVE RefExpr(_, _)
RECURSIVE RefExprTail(_, _)
RECURSIVE RefTerm(_, _)
RECURSIVE RefTermTail(_, _)
RECURSIVE RefUnary(_, _)
RECURSIVE RefPostfixTail(_, _)

RefPrimary(ts, i) ==
    IF i > Len(ts) THEN NoParse
    ELSE IF IsNumberToken(ts[i])
    THEN RefResult(ParseDecimal(ts[i]), "none", "none", i + 1)
    ELSE IF ts[i] = Tok("(")
    THEN LET e == RefExpr(ts, i + 1)
         IN IF e.syntax /\ e.next <= Len(ts) /\ ts[e.next] = Tok(")")
            THEN [e EXCEPT !.next = e.next + 1]
            ELSE NoParse
    ELSE NoParse

RefPostfixTail(ts, p) ==
    IF p.syntax /\ p.next <= Len(ts) /\ ts[p.next] = Tok("%")
    THEN RefPostfixTail(ts, RefResult(DecDiv(p.val, Hundred), p.fault, "none", p.next + 1))
    ELSE p

RefUnary(ts, i) ==
    IF i <= Len(ts) /\ ts[i] = Tok("-")
    THEN LET u == RefUnary(ts, i + 1)
         IN IF u.syntax THEN RefResult(DecNeg(u.val), u.fault, "none", u.next) ELSE NoParse
    ELSE RefPostfixTail(ts, RefPrimary(ts, i))

RefTermTail(ts, p) ==
    IF p.syntax /\ p.next <= Len(ts) /\ ts[p.next] \in {Tok("*"), Tok("/")}
    THEN LET u == RefUnary(ts, p.next + 1)
         IN IF u.syntax
            THEN RefTermTail(ts, RefResult(RefApply(ts[p.next], p.val, u.val),
                                           p.fault, u.fault, u.next))
            ELSE NoParse
    ELSE p

RefTerm(ts, i) == RefTermTail(ts, RefUnary(ts, i))

RefExprTail(ts, p) ==
    IF p.syntax /\ p.next <= Len(ts) /\ ts[p.next] \in {Tok("+"), Tok("-")}
    THEN LET t == RefTerm(ts, p.next + 1)
         IN IF t.syntax
            THEN RefExprTail(ts, RefResult(RefApply(ts[p.next], p.val, t.val),
                                           p.fault, t.fault, t.next))
            ELSE NoParse
    ELSE p

RefExpr(ts, i) == RefExprTail(ts, RefTerm(ts, i))

\* the reference reading of the whole sequence
RefParse(ts) ==
    LET e == RefExpr(ts, 1)
    IN IF e.syntax /\ e.next = Len(ts) + 1 THEN e ELSE NoParse

\* the tokens are numbers and + - * / % ( ) only
OverAlphabet(ts) == \A i \in 1..Len(ts) : IsNumberToken(ts[i]) \/ ts[i] \in SymbolTokens

\* a well-formed infix expression
WellFormed(ts) == OverAlphabet(ts) /\ RefParse(ts).syntax

\* the Decimal of a natural number
Whole(n) == Normalize([neg |-> FALSE, coef |-> n, exp |-> 0])

\* evaluate() returns the value v for the text
Returns(text, v) == evaluate(text).kind = "ok" /\ NumEq(evaluate(text).val, v)

(***************************************************************************)
(* C4: for every expression n1 op1 n2 ... opk n(k+1) the session hands to  *)
(* evaluate(), with no division by zero, the value returned is the         *)
(* reference value in which * and / bind tighter than + and - and equal    *)
(* precedence associates to the left; 2+3*4 = 14, 200/4/5 = 10,            *)
(* 10-3*2+4/2 = 6 and 5-2+3-4+6 = 8.                                       *)
(***************************************************************************)
\* 2+3*4 = 14, 200/4/5 = 10, 10-3*2+4/2 = 6, 5-2+3-4+6 = 8
C4_Examples ==
    /\ Returns(Join(Samples[2]), Whole(14))
    /\ Returns(Join(Samples[12]), Whole(10))
    /\ Returns(Join(Samples[20]), Whole(6))
    /\ Returns(Join(Samples[21]), Whole(8))

C4_PrecedenceValue ==
    /\ (EqualsCalled /\ Alternating(call.tokens)
        /\ (RefValue(call.tokens).kind = "ok" \/ call.result.kind = "ok")) =>
          /\ call.result.kind = "ok"
          /\ RefValue(call.tokens).kind = "ok"
          /\ NumEq(call.result.val, RefValue(call.tokens).val)
    /\ C4_Examples

\* an Equals has evaluated n1 - n2 / n3, where the two readings differ
C4_Witness ==
    /\ EqualsCalled
    /\ call.result.kind = "ok"
    /\ Len(call.tokens) = 5
    /\ call.tokens[2] = Tok("-")
    /\ call.tokens[4] = Tok("/")
    /\ call.tokens[1] = <<"2">>
    /\ call.tokens[3] = <<"2">>
    /\ call.tokens[5] = <<"2">>
    /\ display = <<"1">>

(***************************************************************************)
(* C5: evaluate() fails with EvaluationError on every token string over    *)
(* numbers and + - * / % ( ) that is not a well-formed infix expression,   *)
(* the empty string included.                                              *)
(***************************************************************************)
C5_MalformedRejected ==
    (call.made /\ event.name = "init" /\ OverAlphabet(call.tokens)
     /\ ~RefParse(call.tokens).syntax) =>
        call.result.kind = "invalid"

(***************************************************************************)
(* C6: evaluate() fails with the division-by-zero failure on every         *)
(* well-formed expression in which a division has a divisor of value zero, *)
(* 0/0 included: it neither returns a value nor fails with EvaluationError.*)
(***************************************************************************)
C6_DivisionByZeroDistinguished ==
    (call.made /\ event.name = "init" /\ WellFormed(call.tokens)
     /\ RefParse(call.tokens).fault = "divzero") =>
        call.result.kind = "zerodiv"

(***************************************************************************)
(* C7: expression_tokens never holds two consecutive binary operators; an  *)
(* Operator event arriving when the last token is an operator and no       *)
(* number is in progress replaces that operator, so the sequence keeps its *)
(* length and ends in the operator pressed last.                           *)
(***************************************************************************)
EndsInOperator(ts) == ts # <<>> /\ ts[Len(ts)] \in OperatorValues

C7_NoConsecutiveOperators ==
    /\ \A i \in 1..(Len(expression_tokens) - 1) :
          ~(expression_tokens[i] \in OperatorValues
            /\ expression_tokens[i + 1] \in OperatorValues)
    /\ (event.name = "operator" /\ ~prev.error_state) =>
          /\ EndsInOperator(expression_tokens)
          /\ expression_tokens[Len(expression_tokens)] = OPERATOR_MAP[event.arg]
          /\ current_input = <<>>
    /\ (event.name = "operator" /\ ~prev.error_state /\ prev.current_input = <<>>
        /\ EndsInOperator(prev.expression_tokens)) =>
          /\ Len(expression_tokens) = Len(prev.expression_tokens)
          /\ SubSeq(expression_tokens, 1, Len(expression_tokens) - 1)
               = SubSeq(prev.expression_tokens, 1, Len(expression_tokens) - 1)

\* an Operator event has replaced a different trailing operator
C7_Witness ==
    /\ event.name = "operator"
    /\ ~prev.error_state
    /\ prev.current_input = <<>>
    /\ EndsInOperator(prev.expression_tokens)
    /\ prev.expression_tokens[Len(prev.expression_tokens)] # OPERATOR_MAP[event.arg]
    /\ Len(expression_tokens) = 4

(***************************************************************************)
(* C8: an Equals in a state reached by a successful Equals (just_evaluated *)
(* set) succeeds again and leaves the display text and last_value as they  *)
(* were.                                                                   *)
(***************************************************************************)
C8_EqualsIdempotent ==
    (event.name = "=" /\ prev.just_evaluated /\ ~prev.error_state) =>
        /\ call.made
        /\ call.result.kind = "ok"
        /\ display = prev.display
        /\ NumEq(last_value, prev.last_value)
        /\ just_evaluated
        /\ ~error_state

\* a second Equals has been handled on a negative result
C8_Witness ==
    /\ event.name = "="
    /\ prev.just_evaluated
    /\ StartsWithMinus(prev.display)
    /\ display = prev.display

\* a second Equals has been handled on a zero result
C8_WitnessZero ==
    /\ event.name = "="
    /\ prev.just_evaluated
    /\ prev.display = <<"0">>
    /\ prev.last_value.neg

(***************************************************************************)
(* C9: ToggleSign in a non-error state whose number in progress is zero    *)
(* (current_input empty and not just evaluated, or current_input "0")      *)
(* shows "0", never "-0"; so does a second ToggleSign.                     *)
(***************************************************************************)
C9_ToggleSignOnZero ==
    (/\ event.name = "toggle"
     /\ ~prev.error_state
     /\ \/ (prev.current_input = <<>> /\ ~prev.just_evaluated)
        \/ prev.current_input = <<"0">>
        \/ (prev.current_input = <<"-", "0">> /\ prev.display = <<"0">>)) =>
        /\ display = <<"0">>
        /\ current_input \in {<<"0">>, <<"-", "0">>}

\* a ToggleSign has been handled on the buffer "0"
C9_Witness ==
    /\ event.name = "toggle"
    /\ ~prev.error_state
    /\ prev.current_input = <<"0">>
    /\ current_input = <<"-", "0">>
    /\ display = <<"0">>

(***************************************************************************)
(* C10, as claimed: a "-" is unary negation exactly when no token precedes *)
(* it, or the nearest preceding token that is not "%" is one of + - * / or *)
(* "("; otherwise it is binary subtraction.                                *)
(***************************************************************************)
\* the positions before i holding a token other than "%"
Before(ts, i) == {j \in 1..(i - 1) : ts[j] # Tok("%")}

\* the nearest token before position i that is not "%" is an operator or "("
AfterOperator(ts, i) ==
    /\ Before(ts, i) # {}
    /\ LET j == CHOOSE k \in Before(ts, i) : \A m \in Before(ts, i) : m <= k
       IN ts[j] \in BinaryOps \cup {Tok("(")}

\* the token at position i of the tokenised text is the unary negation
UnaryAt(ts, i) ==
    LET t == tokenise(Join(ts))
    IN t.kind = "ok" /\ Len(t.tokens) = Len(ts) /\ t.tokens[i] = UMINUS

\* the last evaluation is of a token string whose tokenisation is itself
Tokenised ==
    /\ call.made
    /\ event.name = "init"
    /\ OverAlphabet(call.tokens)
    /\ tokenise(Join(call.tokens)).kind = "ok"
    /\ Len(tokenise(Join(call.tokens)).tokens) = Len(call.tokens)

C10_UnaryMinusAsClaimed ==
    Tokenised =>
        \A i \in 1..Len(call.tokens) :
            call.tokens[i] = Tok("-") =>
                (UnaryAt(call.tokens, i) <=> (i = 1 \/ AfterOperator(call.tokens, i)))

(***************************************************************************)
(* C10, amended: a "-" is unary negation exactly when no token other than  *)
(* "%" precedes it, or the nearest preceding token that is not "%" is one  *)
(* of + - * / or "("; otherwise it is binary subtraction.  5--3 = 8,       *)
(* 3+-2 = 1 and 50%-3 = -2.5.                                              *)
(***************************************************************************)
\* 5--3 = 8, 3+-2 = 1, 50%-3 = -2.5
C10_Examples ==
    /\ Returns(Join(Samples[14]), Whole(8))
    /\ Returns(Join(Samples[9]), Whole(1))
    /\ Returns(Join(Samples[27]), [neg |-> TRUE, coef |-> 25, exp |-> -1])

C10_UnaryMinus ==
    /\ Tokenised =>
          \A i \in 1..Len(call.tokens) :
              call.tokens[i] = Tok("-") =>
                  (UnaryAt(call.tokens, i)
                     <=> (Before(call.tokens, i) = {} \/ AfterOperator(call.tokens, i)))
    /\ C10_Examples

\* a "-" after a number and a "%" has been read as subtraction, and evaluated
C10_Witness ==
    /\ Tokenised
    /\ Len(call.tokens) = 4
    /\ IsNumberToken(call.tokens[1])
    /\ call.tokens[2] = Tok("%")
    /\ call.tokens[3] = Tok("-")
    /\ ~UnaryAt(call.tokens, 3)
    /\ call.result.kind = "ok"

(***************************************************************************)
(* C11: postfix "%" binds tighter than every binary operator: for numbers  *)
(* a, b and op one of + - * /, evaluate("a op b%") returns a op (b/100)    *)
(* whenever that value exists (200*10% = 20, 50% = 0.5), and a "%" after a *)
(* parenthesised group divides the value of the whole group by 100.        *)
(***************************************************************************)
\* the last evaluation is of a token string given to evaluate() directly
Evaluated == call.made /\ event.name = "init"

\* the tokens read a op b %
OperandPercent(ts) ==
    /\ Len(ts) = 4
    /\ IsNumberToken(ts[1])
    /\ ts[2] \in BinaryOps
    /\ IsNumberToken(ts[3])
    /\ ts[4] = Tok("%")

\* a op (b/100) for the tokens a op b %
OperandPercentValue(ts) ==
    RefApply(ts[2], ParseDecimal(ts[1]).val, DecDiv(ParseDecimal(ts[3]).val, Hundred).val)

\* the tokens read ( group ) % with a well-formed group
GroupPercent(ts) ==
    /\ Len(ts) >= 4
    /\ ts[1] = Tok("(")
    /\ ts[Len(ts) - 1] = Tok(")")
    /\ ts[Len(ts)] = Tok("%")
    /\ WellFormed(SubSeq(ts, 2, Len(ts) - 2))

\* the value of the group of ( group ) %
GroupValue(ts) == RefParse(SubSeq(ts, 2, Len(ts) - 2))

\* 200*10% = 20, 50% = 0.5
C11_Examples ==
    /\ Returns(Join(Samples[10]), Whole(20))
    /\ Returns(Join(Samples[11]), [neg |-> FALSE, coef |-> 5, exp |-> -1])

C11_PercentBindsTightest ==
    /\ (Evaluated /\ OperandPercent(call.tokens)
        /\ OperandPercentValue(call.tokens).kind = "ok") =>
          /\ call.result.kind = "ok"
          /\ NumEq(call.result.val, OperandPercentValue(call.tokens).val)
    /\ (Evaluated /\ GroupPercent(call.tokens) /\ GroupValue(call.tokens).fault = "none"
        /\ DecDiv(GroupValue(call.tokens).val, Hundred).kind = "ok") =>
          /\ call.result.kind = "ok"
          /\ NumEq(call.result.val, DecDiv(GroupValue(call.tokens).val, Hundred).val)
    /\ C11_Examples

\* 5 - 2 % has been evaluated to 4.98, which is not (5 - 2) / 100
C11_Witness ==
    /\ Evaluated
    /\ call.tokens = <<Tok("5"), Tok("-"), Tok("2"), Tok("%")>>
    /\ call.result.kind = "ok"
    /\ call.result.val = [neg |-> FALSE, coef |-> 498, exp |-> -2]

\* ( 5 - 2 ) % has been evaluated to 0.03
C11_WitnessGroup ==
    /\ Evaluated
    /\ GroupPercent(call.tokens)
    /\ Len(call.tokens) = 6
    /\ call.result.kind = "ok"
    /\ call.result.val = [neg |-> FALSE, coef |-> 3, exp |-> -2]

(***************************************************************************)
(* C12: on every token sequence with unbalanced parentheses (a ")" with no *)
(* "(" open before it, or a "(" never closed) evaluate() fails with        *)
(* EvaluationError, raised by the conversion to postfix when the text      *)
(* tokenises: it returns no value and reports no division by zero, also    *)
(* when the expression holds a division by zero, as ( 2 / 0 and 2 / 0 ).   *)
(***************************************************************************)
\* the parentheses open after the first n tokens: "(" counted up, ")" counted down
Depth(ts, n) ==
    Cardinality({i \in 1..n : ts[i] = Tok("(")}) - Cardinality({i \in 1..n : ts[i] = Tok(")")})

\* a ")" with no "(" open before it, or a "(" never closed
Unbalanced(ts) == (\E n \in 1..Len(ts) : Depth(ts, n) < 0) \/ Depth(ts, Len(ts)) > 0

C12_UnbalancedRejected ==
    (Evaluated /\ Unbalanced(call.tokens)) =>
        /\ call.result.kind = "invalid"
        /\ tokenise(call.expression).kind = "ok" =>
              to_rpn(tokenise(call.expression).tokens).kind = "invalid"

\* ( 2 / 0 has been evaluated: EvaluationError, and the text tokenises
C12_Witness ==
    /\ Evaluated
    /\ call.tokens = <<Tok("("), Tok("2"), Tok("/"), Tok("0")>>
    /\ tokenise(call.expression).kind = "ok"
    /\ call.result.kind = "invalid"

\* 2 / 0 ) has been evaluated: EvaluationError
C12_WitnessClose ==
    /\ Evaluated
    /\ call.tokens = <<Tok("2"), Tok("/"), Tok("0"), Tok(")")>>
    /\ call.result.kind = "invalid"

(***************************************************************************)
(* C13: + - and * on decimal literals are exact in base 10.  For every     *)
(* expression n1 op1 n2 ... of literals and + - * that an Equals           *)
(* evaluates, format_decimal of the value is the exact result (computed    *)
(* here on integers scaled by powers of ten) in plain notation: digits     *)
(* with an optional leading "-" and at most one point, no trailing zero    *)
(* after the point, no trailing point, no negative zero.  0.1+0.2 gives    *)
(* "0.3", 1.5*2.0 gives "3", 2.5+4.75 gives "7.25".                        *)
(***************************************************************************)
\* an exact decimal: the integer num divided by 10^scale
ExactOfText(t) ==
    LET body == IF StartsWithMinus(t) THEN Tail(t) ELSE t
    IN [num   |-> (IF StartsWithMinus(t) THEN -1 ELSE 1) * DigitsVal(NoPoint(body), 0),
        scale |-> FracLen(body)]

\* the same number with the smallest scale
RECURSIVE ExactNorm(_)
ExactNorm(x) ==
    IF x.num = 0 THEN [num |-> 0, scale |-> 0]
    ELSE IF x.scale > 0 /\ x.num % 10 = 0
    THEN ExactNorm([num |-> x.num \div 10, scale |-> x.scale - 1])
    ELSE x

\* a op b on exact decimals, op one of + - *
ExactApply(op, a, b) ==
    LET scale == IF a.scale >= b.scale THEN a.scale ELSE b.scale
        an    == a.num * Pow10(scale - a.scale)
        bn    == b.num * Pow10(scale - b.scale)
    IN CASE op = Tok("+") -> [num |-> an + bn, scale |-> scale]
         [] op = Tok("-") -> [num |-> an - bn, scale |-> scale]
         [] op = Tok("*") -> [num |-> a.num * b.num, scale |-> a.scale + b.scale]

\* the exact value of vals[1] ops[1] vals[2] ...: the leftmost * first, then the
\* leftmost + or -
RECURSIVE ExactReduce(_, _)
ExactReduce(vals, ops) ==
    IF ops = <<>> THEN vals[1]
    ELSE LET tight == {i \in 1..Len(ops) : ops[i] = Tok("*")}
             i == IF tight = {} THEN 1 ELSE CHOOSE k \in tight : \A j \in tight : k <= j
         IN ExactReduce([Without(vals, i + 1) EXCEPT
                            ![i] = ExactApply(ops[i], vals[i], vals[i + 1])],
                        Without(ops, i))

\* the exact value of an alternating token sequence without division
ExactValue(ts) ==
    ExactNorm(ExactReduce([i \in 1..((Len(ts) + 1) \div 2) |-> ExactOfText(ts[2 * i - 1])],
                          OpsOf(ts)))

\* plain notation: an optional "-", digits with at most one point and a digit before
\* it, no trailing zero after the point, no trailing point, no negative zero
PlainNotation(t) ==
    LET body == IF StartsWithMinus(t) THEN Tail(t) ELSE t
    IN /\ body # <<>>
       /\ \A i \in 1..Len(body) : IsDigit(body[i]) \/ body[i] = "."
       /\ Count(body, ".") <= 1
       /\ IsDigit(body[1])
       /\ Contains(body, ".") => body[Len(body)] \notin {"0", "."}
       /\ ~(StartsWithMinus(t) /\ \A i \in 1..Len(body) : body[i] \in {"0", "."})

\* the expression evaluated has literals and + - * only
ExactCase ==
    /\ EqualsCalled
    /\ call.result.kind = "ok"
    /\ Alternating(call.tokens)
    /\ \A i \in 1..Len(call.tokens) : call.tokens[i] # Tok("/")

\* format_decimal(evaluate(text)) is the text out
Formats(text, out) == evaluate(text).kind = "ok" /\ format_decimal(evaluate(text).val) = out

\* 0.1+0.2 gives "0.3", 1.5*2.0 gives "3", 2.5+4.75 gives "7.25"
C13_Examples ==
    /\ Formats(<<"0", ".", "1", "+", "0", ".", "2">>, <<"0", ".", "3">>)
    /\ Formats(<<"1", ".", "5", "*", "2", ".", "0">>, <<"3">>)
    /\ Formats(<<"2", ".", "5", "+", "4", ".", "7", "5">>, <<"7", ".", "2", "5">>)

C13_ExactInBaseTen ==
    /\ ExactCase =>
          /\ PlainNotation(format_decimal(call.result.val))
          /\ ExactNorm(ExactOfText(format_decimal(call.result.val))) = ExactValue(call.tokens)
    /\ C13_Examples

\* 20 * 0.2 has been evaluated and is shown as 4
C13_Witness ==
    /\ ExactCase
    /\ call.tokens = <<<<"2", "0">>, Tok("*"), <<"0", ".", "2">> >>
    /\ format_decimal(call.result.val) = <<"4">>
    /\ display = <<"4">>

\* 0.2 * 0.2 has been evaluated and is shown as 0.04
C13_WitnessFraction ==
    /\ ExactCase
    /\ call.tokens = <<<<"0", ".", "2">>, Tok("*"), <<"0", ".", "2">> >>
    /\ display = <<"0", ".", "0", "4">>

\* a product with a negative factor and a zero factor has been evaluated
C13_WitnessNegativeZero ==
    /\ ExactCase
    /\ call.result.val.neg
    /\ call.result.val.coef = 0
    /\ format_decimal(call.result.val) = <<"0">>

(***************************************************************************)
(* C14, as claimed: in every non-error state, when the text the rendering  *)
(* rule selects is exactly "-0" or exactly "-0." the display shows "0",    *)
(* and when it is empty or a lone "-" the display shows "0".               *)
(***************************************************************************)
\* the text the rendering rule selects: current_input if not empty, else last_output
\* or the formatted last token
SelectedText == chosen_text(Session, last_token_display(expression_tokens))

C14_AsClaimed ==
    ~error_state =>
        /\ SelectedText \in {<<"-", "0">>, <<"-", "0", ".">>} => display = <<"0">>
        /\ SelectedText \in {<<>>, <<"-">>} => display = <<"0">>

(***************************************************************************)
(* C14, amended: in every non-error state, when the selected text is       *)
(* exactly "-0" the display shows "0", when it is exactly "-0." the        *)
(* display shows "0." (the sign is removed, the point is kept), and an     *)
(* empty or lone "-" text is rendered as "0".                              *)
(***************************************************************************)
\* the rendering of an empty text and of a lone "-"
C14_Examples == display_text(<<>>) = <<"0">> /\ display_text(<<"-">>) = <<"0">>

C14_NegativeZeroRendering ==
    /\ ~error_state =>
          /\ SelectedText = <<"-", "0">> => display = <<"0">>
          /\ SelectedText = <<"-", "0", ".">> => display = <<"0", ".">>
          /\ SelectedText \in {<<>>, <<"-">>} => display = <<"0">>
          /\ display = display_text(SelectedText)
    /\ C14_Examples

\* a DecimalPoint on the buffer "-0" has made it "-0.", shown as "0."
C14_Witness ==
    /\ ~error_state
    /\ event.name = "."
    /\ prev.current_input = <<"-", "0">>
    /\ current_input = <<"-", "0", ".">>
    /\ SelectedText = <<"-", "0", ".">>
    /\ display = <<"0", ".">>

(***************************************************************************)
(* C15: an Operator event op in a non-error state with current_input empty *)
(* and expression_tokens empty sets expression_tokens to exactly the       *)
(* canonical string of last_value followed by op; from the initial or a    *)
(* freshly reset state that operand is "0".                                *)
(***************************************************************************)
\* the last event was an Operator that found no error, no buffer and no expression
OperatorOnEmpty ==
    /\ event.name = "operator"
    /\ ~prev.error_state
    /\ prev.current_input = <<>>
    /\ prev.expression_tokens = <<>>

C15_OperatorSeedsLastValue ==
    OperatorOnEmpty =>
        /\ expression_tokens = <<decimal_to_string(prev.last_value), OPERATOR_MAP[event.arg]>>
        /\ FullReset(prev) => expression_tokens[1] = <<"0">>

\* an Operator after 2 = CE has seeded the expression with "2"
C15_Witness ==
    /\ OperatorOnEmpty
    /\ prev.last_value = Whole(2)
    /\ expression_tokens = <<<<"2">>, Tok("+")>>

\* an Operator in the initial or a freshly reset state has seeded "0"
C15_WitnessReset ==
    /\ OperatorOnEmpty
    /\ FullReset(prev)
    /\ expression_tokens = <<<<"0">>, Tok("*")>>

(***************************************************************************)
(* C16: whenever an Operator event seeds the left operand from last_value  *)
(* (no error, current_input empty, expression_tokens empty), the seeded    *)
(* operand is numerically equal to the number the display showed just      *)
(* before the event, whatever events came before (a ClearEntry or a        *)
(* Backspace after a successful Equals among them).                        *)
(***************************************************************************)
C16_SeedMatchesDisplay ==
    OperatorOnEmpty =>
        /\ IsDecimalText(prev.display)
        /\ NumEq(ParseDecimal(prev.display).val, ParseDecimal(expression_tokens[1]).val)

(***************************************************************************)
(* C17: a Percent event in a non-error state with a non-empty buffer       *)
(* replaces the buffer by the canonical text of its value divided by 100,  *)
(* leaves expression_tokens unchanged, sets last_value to that value and   *)
(* last_output to its formatted text, and clears just_evaluated; with an   *)
(* empty buffer and no numeric token in expression_tokens, current_input   *)
(* becomes "0" and last_value becomes 0.                                   *)
(***************************************************************************)
\* the last event was a Percent outside an error state
PercentEvent == event.name = "%" /\ ~prev.error_state

\* the value of the buffer before the event, divided by 100
PercentOfBuffer == DecDiv(ParseDecimal(prev.current_input).val, Hundred).val

\* the exact decimal x divided by 100
ExactPercent(x) == ExactNorm([num |-> x.num, scale |-> x.scale + 2])

\* no token of the sequence is a number
NoNumericToken(ts) == \A i \in 1..Len(ts) : ts[i] \in OperatorValues

C17_PercentOfBuffer ==
    /\ (PercentEvent /\ prev.current_input # <<>>) =>
          /\ ~error_state
          /\ current_input = decimal_to_string(PercentOfBuffer)
          /\ ExactNorm(ExactOfText(current_input)) = ExactPercent(ExactOfText(prev.current_input))
          /\ expression_tokens = prev.expression_tokens
          /\ NumEq(last_value, PercentOfBuffer)
          /\ last_output = format_decimal(PercentOfBuffer)
          /\ ~just_evaluated
    /\ (PercentEvent /\ prev.current_input = <<>> /\ NoNumericToken(prev.expression_tokens)) =>
          /\ ~error_state
          /\ current_input = <<"0">>
          /\ NumEq(last_value, Zero)

\* a Percent on the buffer "2" of the expression 2 + has made the buffer "0.02"
C17_Witness ==
    /\ PercentEvent
    /\ prev.current_input = <<"2">>
    /\ prev.expression_tokens = <<<<"2">>, Tok("+")>>
    /\ current_input = <<"0", ".", "0", "2">>
    /\ last_value = [neg |-> FALSE, coef |-> 2, exp |-> -2]

\* a Percent with an empty buffer, no token and a last_value other than 0
C17_WitnessNothing ==
    /\ PercentEvent
    /\ prev.current_input = <<>>
    /\ prev.expression_tokens = <<>>
    /\ ~NumEq(prev.last_value, Zero)
    /\ current_input = <<"0">>

(***************************************************************************)
(* C18: a Percent event in a non-error state with an empty buffer and a    *)
(* numeric token in expression_tokens divides the last numeric token by    *)
(* 100 in place and changes nothing else of the pending expression: the    *)
(* number and order of tokens and every other token are unchanged, and     *)
(* current_input is still empty afterwards.                                *)
(***************************************************************************)
\* the index of the last numeric token before the event
PercentIndex == find_last_number_index(prev)

\* the value of that token divided by 100
PercentOfToken == DecDiv(ParseDecimal(prev.expression_tokens[PercentIndex]).val, Hundred).val

\* the last event was a Percent with an empty buffer and a numeric token
PercentOnToken ==
    /\ PercentEvent
    /\ prev.current_input = <<>>
    /\ ~NoNumericToken(prev.expression_tokens)

C18_PercentInPlace ==
    PercentOnToken =>
        /\ ~error_state
        /\ Len(expression_tokens) = Len(prev.expression_tokens)
        /\ \A i \in 1..Len(expression_tokens) :
              IF i = PercentIndex
              THEN expression_tokens[i] = decimal_to_string(PercentOfToken)
              ELSE expression_tokens[i] = prev.expression_tokens[i]
        /\ current_input = <<>>

(***************************************************************************)
(* C19: a Digit d event in a non-error, not-just-evaluated state: on a     *)
(* buffer "0" or "-0" the digit 0 leaves the whole state and the display   *)
(* unchanged and a nonzero d makes the buffer "d" or "-d" respectively;    *)
(* on any other buffer the buffer becomes current_input followed by d.     *)
(* After every Digit event current_input is non-empty, and in the changing *)
(* cases last_output equals the new buffer.                                *)
(***************************************************************************)
\* the last event was a Digit in a non-error, not-just-evaluated state
DigitEvent == event.name = "digit" /\ ~prev.error_state /\ ~prev.just_evaluated

\* the buffer before the event was "0" or "-0"
OnZeroBuffer == prev.current_input \in {<<"0">>, <<"-", "0">>}

C19_DigitEvent ==
    /\ (DigitEvent /\ OnZeroBuffer /\ event.arg = "0") => Fields = prev
    /\ (DigitEvent /\ OnZeroBuffer /\ event.arg # "0") =>
          /\ prev.current_input = <<"0">> => current_input = <<event.arg>>
          /\ prev.current_input = <<"-", "0">> => current_input = <<"-", event.arg>>
          /\ last_output = current_input
    /\ (DigitEvent /\ ~OnZeroBuffer) =>
          /\ current_input = prev.current_input \o <<event.arg>>
          /\ last_output = current_input
    /\ event.name = "digit" => current_input # <<>>

\* the digit 2 on the buffer "-0" has made the buffer "-2"
C19_Witness ==
    /\ DigitEvent
    /\ prev.current_input = <<"-", "0">>
    /\ event.arg = "2"
    /\ current_input = <<"-", "2">>

\* the digit 0 on the buffer "-0" of a pending expression
C19_WitnessNoOp ==
    /\ DigitEvent
    /\ prev.current_input = <<"-", "0">>
    /\ prev.expression_tokens # <<>>
    /\ event.arg = "0"

\* a digit appended to a buffer with a point
C19_WitnessAppend ==
    /\ DigitEvent
    /\ prev.current_input = <<"2", ".">>
    /\ current_input = <<"2", ".", "0">>

\* a digit that found an error state or a result has left a one-digit buffer
C19_WitnessAfresh ==
    /\ event.name = "digit"
    /\ prev.error_state
    /\ current_input = <<event.arg>>

(***************************************************************************)
(* C20: in every reachable state current_input contains at most one ".",   *)
(* whatever events produced it; a DecimalPoint event on a buffer that      *)
(* already contains "." (outside an error state and not just after a       *)
(* result, which both empty the buffer first) leaves the buffer unchanged. *)
(***************************************************************************)
\* the last event was a DecimalPoint that found a point in the buffer it works on
PointOnPoint ==
    /\ event.name = "."
    /\ ~prev.error_state
    /\ ~prev.just_evaluated
    /\ Contains(prev.current_input, ".")

C20_AtMostOnePoint ==
    /\ Count(current_input, ".") <= 1
    /\ PointOnPoint => current_input = prev.current_input

\* a DecimalPoint on the buffer "0.02" that a Percent event produced
C20_Witness ==
    /\ PointOnPoint
    /\ prev.current_input = <<"0", ".", "0", "2">>
    /\ current_input = <<"0", ".", "0", "2">>

\* a DecimalPoint on a buffer ending in the point
C20_WitnessTyped ==
    /\ PointOnPoint
    /\ prev.current_input = <<"-", "2", ".">>

\* a DecimalPoint after a result with a point starts the buffer "0."
C20_WitnessAfterResult ==
    /\ event.name = "."
    /\ prev.just_evaluated
    /\ Contains(prev.current_input, ".")
    /\ current_input = <<"0", ".">>

(***************************************************************************)
(* C21: an Equals in a non-error state with an empty buffer: when          *)
(* expression_tokens ends in an operator, that operator is dropped and the *)
(* remaining expression is evaluated (5, +, = displays "5"); when          *)
(* expression_tokens is empty the event leaves every session field and the *)
(* display unchanged.                                                      *)
(***************************************************************************)
\* the last event was an Equals outside an error state with an empty buffer
EqualsOnEmptyBuffer == event.name = "=" /\ ~prev.error_state /\ prev.current_input = <<>>

\* the token sequence ends in an operator
TrailingOperator(ts) == ts # <<>> /\ ts[Len(ts)] \in OperatorValues

\* the tokens before the event without their last one
Trimmed == SubSeq(prev.expression_tokens, 1, Len(prev.expression_tokens) - 1)

\* the keys 5, +, = display "5"
C21_Example == Play(Constructed, <<"5", "+", "=">>).display = <<"5">>

C21_EqualsOnEmptyBuffer ==
    /\ (EqualsOnEmptyBuffer /\ TrailingOperator(prev.expression_tokens)) =>
          /\ call.made
          /\ call.tokens = Trimmed
          /\ call.expression = Join(Trimmed)
          /\ call.result = evaluate(Join(Trimmed))
          /\ call.result.kind = "ok" =>
                /\ display = format_decimal(call.result.val)
                /\ NumEq(last_value, call.result.val)
                /\ just_evaluated
          /\ call.result.kind # "ok" => ErrorDisplay(Fields)
    /\ (EqualsOnEmptyBuffer /\ prev.expression_tokens = <<>>) =>
          /\ Fields = prev
          /\ ~call.made
    /\ C21_Example

\* an Equals has dropped the trailing operator of 2 + 2 * and shown 4
C21_Witness ==
    /\ EqualsOnEmptyBuffer
    /\ prev.expression_tokens = <<<<"2">>, Tok("+"), <<"2">>, Tok("*")>>
    /\ display = <<"4">>

\* an Equals with nothing entered, after a result was cleared by ClearEntry
C21_WitnessNoOp ==
    /\ EqualsOnEmptyBuffer
    /\ prev.expression_tokens = <<>>
    /\ ~NumEq(last_value, Zero)
    /\ display = <<"0">>

\* an Equals has dropped a trailing operator and the rest divided by zero
C21_WitnessError ==
    /\ EqualsOnEmptyBuffer
    /\ TrailingOperator(prev.expression_tokens)
    /\ error_state

(***************************************************************************)
(* C22: just_evaluated is set in a reachable state only if the most recent *)
(* event was an Equals that evaluated successfully; whenever it is set,    *)
(* error_state is clear, expression_tokens is empty and current_input =    *)
(* last_output = format_decimal(last_value).  Every other event (Digit,    *)
(* DecimalPoint, Operator, ClearAll, ClearEntry, Backspace, ToggleSign,    *)
(* Percent) leaves it clear.                                               *)
(***************************************************************************)
C22_JustEvaluated ==
    /\ just_evaluated =>
          /\ EqualsCalled
          /\ call.result.kind = "ok"
          /\ ~error_state
          /\ expression_tokens = <<>>
          /\ current_input = last_output
          /\ current_input = format_decimal(last_value)
    /\ event.name \in {"digit", ".", "operator", "C", "CE", "backspace", "toggle", "%"} =>
          ~just_evaluated
    /\ (EqualsCalled /\ call.result.kind = "ok") => just_evaluated

\* a ToggleSign on a result has cleared the flag and negated the buffer
C22_Witness ==
    /\ event.name = "toggle"
    /\ prev.just_evaluated
    /\ prev.current_input = <<"4">>
    /\ current_input = <<"-", "4">>
    /\ ~just_evaluated

\* an Equals on a result has evaluated it again and left the flag set
C22_WitnessAgain ==
    /\ EqualsCalled
    /\ prev.just_evaluated
    /\ just_evaluated

\* an Equals that made no call has left the flag clear
C22_WitnessNoCall ==
    /\ event.name = "="
    /\ ~prev.error_state
    /\ ~call.made
    /\ ~just_evaluated

(***************************************************************************)
(* C23: between events expression_tokens is either empty or a strictly     *)
(* alternating sequence number, operator, number, operator, ... that       *)
(* starts with a numeric token and ends with a binary operator (even       *)
(* length); two numeric tokens are never adjacent and a numeric token is   *)
(* never last, so the rendering branch for a trailing numeric token is     *)
(* never taken.                                                            *)
(***************************************************************************)
\* number, operator, ..., number, operator
PendingShape(ts) ==
    /\ Len(ts) % 2 = 0
    /\ \A i \in 1..Len(ts) :
          IF i % 2 = 1
          THEN ts[i] \notin OperatorValues /\ IsDecimalText(ts[i])
          ELSE ts[i] \in OperatorValues

\* _update_display would take the branch for a trailing numeric token
NumericTokenShown ==
    /\ ~error_state
    /\ current_input = <<>>
    /\ expression_tokens # <<>>
    /\ expression_tokens[Len(expression_tokens)] \notin OperatorValues

C23_TokensAlternate ==
    /\ PendingShape(expression_tokens)
    /\ \A i \in 1..(Len(expression_tokens) - 1) :
          expression_tokens[i] \in OperatorValues \/ expression_tokens[i + 1] \in OperatorValues
    /\ ~NumericTokenShown

\* four pending tokens with a negative operand, after an Operator event
C23_Witness ==
    /\ event.name = "operator"
    /\ Len(expression_tokens) = 4
    /\ expression_tokens[3] = <<"-", "2">>
    /\ current_input = <<>>

\* a Percent on an empty buffer has rewritten the operand of a pending expression
C23_WitnessPercent ==
    /\ PercentOnToken
    /\ expression_tokens = <<<<"0", ".", "0", "2">>, Tok("/")>>

(***************************************************************************)
(* C24: the session enters error_state only through an Equals whose        *)
(* expression divides by zero: current_input is always empty or a          *)
(* parseable numeric literal (never a lone "-" or "."), so committing the  *)
(* buffer and Percent never fail to parse, and every expression handed to  *)
(* the evaluator is a well-formed alternation of numbers and binary        *)
(* operators that never fails with EvaluationError.                        *)
(***************************************************************************)
\* the expression of the call reaches a division by zero when it is worked out
DividesByZero == RefValue(call.tokens).kind \in {"DivisionByZero", "InvalidOperation"}

\* the buffer is empty or a text Decimal() accepts
BufferParses == current_input = <<>> \/ IsDecimalText(current_input)

\* error_state is set only after an Equals whose expression divides by zero
ErrorOnlyByZeroDivision ==
    error_state => (EqualsCalled /\ Alternating(call.tokens) /\ DividesByZero)

C24_NoEvaluationError ==
    /\ ErrorOnlyByZeroDivision
    /\ BufferParses
    /\ EqualsCalled =>
          /\ Alternating(call.tokens)
          /\ call.expression = Join(call.tokens)
          /\ call.result.kind # "invalid"

====
